---- MODULE Spec2Model ----
(***************************************************************************)
(* A model of the ebiten-ecs registry (package ecs), its component query   *)
(* engine (package component) and the systems that plug into it.           *)
(*                                                                         *)
(* Go maps are modelled as functions whose DOMAIN is the set of keys       *)
(* present; slices as sequences; an entity.Entity by its ID; a component   *)
(* by the type and the address (cell) of the payload it points at.         *)
(***************************************************************************)
EXTENDS Integers, Sequences, FiniteSets, TLC

\* ------------------------------------------------------------------ bounds
MaxEntityID == 2
MaxSystemID == 2
MaxZIndex == 2
MaxSystems == 3
FrameSystems == 2
OwnSystems == 1
MaxFrames == 1
MaxCounterFrames == 3
MaxCounterValue == 10
MaxAvailable == 3
MaxSlots == 2
MaxAssoc == 3
MaxArgs == 2
MaxComps == 2
InitValue == 2
ReadSlots == 1
MaxIssued == 8

EntityIDs == 1..MaxEntityID
SystemIDs == 1..MaxSystemID
ZIndexes == 1..MaxZIndex

\* ------------------------------------------------------------ generic helpers
Range(s) == {s[i] : i \in 1..Len(s)}

SeqsUpTo(S, n) == UNION {[1..k -> S] : k \in 0..n}

\* v := m[k] on a Go map: the zero value (a nil slice) when k is absent.
Lookup(m, k) == IF k \in DOMAIN m THEN m[k] ELSE <<>>

\* m[k] = v on a Go map: creates the key when absent.
Store(m, k, v) == [x \in DOMAIN m \cup {k} |-> IF x = k THEN v ELSE m[x]]

\* Mutant of Delete: the key and its value are left in the map.
DeleteNone(m, k) == m

\* delete(m, k) on a Go map.
Delete(m, k) == [x \in DOMAIN m \ {k} |-> m[x]]

\* ------------------------------------------------------------- components
\* Payload types. A payload of "pointer" form is *T for a struct type T.
Types == {"Counter", "Other"}

\* A nil pointer: an out slot that has not been bound.
Unbound == 0

\* Addresses of the payload records user code creates: one CounterComponent
\* per entity, which carries a Value, and one record of the other type.
CounterCells == EntityIDs
OtherCell == MaxEntityID + 1
Cells == CounterCells \cup {OtherCell}

\* component.New(data): wraps the payload without checking its form.
\* ptr = TRUE: data is &T{...} at address cell; ptr = FALSE: data is a T value.
New(t, cell, isPtr) == [type |-> t, cell |-> cell, ptr |-> isPtr]

\* The components user code creates: the counters, the record of the other
\* type, and one counter passed by value instead of by reference.
Components ==
  {New("Counter", c, TRUE) : c \in CounterCells}
  \cup {New("Other", OtherCell, TRUE), New("Counter", Unbound, FALSE)}

\* Errors an updater can return; NoError is Go's nil error.
Errors == {"X", "Y"}
NoError == "nil"

\* ------------------------------------------------------------------ state
VARIABLES
  updaters,            \* ECS.updaters: []system.Updater, by system ID
  drawers,             \* ECS.drawers: map[int][]system.Drawer
  entitiesRegistry,    \* ECS.entitiesRegistry: map[system.ID][]entity.Entity
  componentsRegistry,  \* ECS.componentsRegistry: map[entity.ID][]component.Component
  heap,                \* Value field of each CounterComponent record
  ret,                 \* the last call: its arguments, result and invocations
  argHist,             \* history: entity arguments of Register{Updater,Drawer} per system
  noUnregister,        \* history: UnregisterEntity has not been called yet
  compHist,            \* history: components passed to RegisterEntity per entity
                       \*          since the entity's last unregistration
  frames,              \* history: number of Update() calls made
  heap0,               \* history: the Value each counter was created with
  entityId,            \* package entity: var id ID
  systemId,            \* package system: var id ID
  issued,              \* history: the values AssignID has returned, per package
  unregistered,        \* history: entities unregistered and not passed to
                       \*          RegisterEntity since
  retired              \* history: entities unregistered and not passed to
                       \*          RegisterEntity, RegisterUpdater or RegisterDrawer since

vars == <<updaters, drawers, entitiesRegistry, componentsRegistry, heap, ret,
          argHist, noUnregister, compHist, frames, heap0,
          entityId, systemId, issued, unregistered, retired>>

hists == <<argHist, noUnregister, compHist, heap0>>

\* The ID counters of the packages entity and system, and their history.
ids == <<entityId, systemId, issued>>

\* The histories of unregistration.
gone == <<unregistered, retired>>

\* The four fields of the ECS struct.
Registry == <<updaters, drawers, entitiesRegistry, componentsRegistry>>

\* The shape of ret; every call fills in the fields it has.
Ret0 ==
  [op |-> "New", ent |-> 0, sys |-> 0, z |-> 0, ents |-> <<>>, comps |-> <<>>,
   err |-> NoError, fault |-> FALSE, log |-> <<>>, before |-> <<>>,
   order |-> <<>>, slots |-> <<>>, out |-> <<>>]

\* ecs.New(): empty registries. h gives the Value of the counters user code
\* creates, r the pending call.
InitWith(h, r) ==
  /\ updaters = <<>>
  /\ drawers = <<>>
  /\ entitiesRegistry = <<>>
  /\ componentsRegistry = <<>>
  /\ heap = h
  /\ ret = r
  /\ argHist = [s \in SystemIDs |-> <<>>]
  /\ noUnregister = TRUE
  /\ compHist = [e \in EntityIDs |-> <<>>]
  /\ frames = 0
  /\ heap0 = heap
  /\ entityId = 0
  /\ unregistered = {}
  /\ retired = {}
  /\ systemId = 0
  /\ issued = [entity |-> {}, system |-> {}]

Init == InitWith([c \in CounterCells |-> InitValue], Ret0)

\* An unrecovered panic ends the process: nothing runs after a fault.
Running == ~ret.fault

\* ------------------------------------------------------------ RegisterEntity
\* Mutant of RegisterEntityLoop: the form of the payload is not checked.
RECURSIVE RegisterEntityLoopUnchecked(_, _, _, _)
RegisterEntityLoopUnchecked(reg, e, components, i) ==
  IF i > Len(components) THEN [reg |-> reg, fault |-> FALSE]
  ELSE RegisterEntityLoopUnchecked(Store(reg, e, Append(Lookup(reg, e), components[i])),
                                   e, components, i + 1)

\* The loop of RegisterEntity from its i-th argument on: a payload that is not
\* a pointer panics, leaving what the earlier iterations appended.
RECURSIVE RegisterEntityLoop(_, _, _, _)
RegisterEntityLoop(reg, e, components, i) ==
  IF i > Len(components) THEN [reg |-> reg, fault |-> FALSE]
  ELSE IF ~components[i].ptr THEN [reg |-> reg, fault |-> TRUE]
  ELSE RegisterEntityLoop(Store(reg, e, Append(Lookup(reg, e), components[i])),
                          e, components, i + 1)

RegisterEntity(e, components) ==
  LET r == RegisterEntityLoop(componentsRegistry, e, components, 1) IN
  /\ Running
  /\ componentsRegistry' = r.reg
  /\ ret' = [Ret0 EXCEPT !.op = "RegisterEntity", !.ent = e,
                         !.comps = components, !.fault = r.fault]
  /\ compHist' = [compHist EXCEPT ![e] = @ \o components]
  /\ unregistered' = unregistered \ {e}
  /\ retired' = retired \ {e}
  /\ UNCHANGED <<updaters, drawers, entitiesRegistry, heap, argHist, noUnregister, frames, heap0, ids>>

\* ---------------------------------------------------------- UnregisterEntity
\* Mutant of deleteFromSlice: the slice is truncated without the swap.
deleteFromSliceNoSwap(l, i) ==
  IF Len(l) = 0 \/ i > Len(l) \/ i < 1
    THEN [arr |-> l, len |-> Len(l)]
    ELSE [arr |-> l, len |-> Len(l) - 1]

\* deleteFromSlice(l, i), i counted from 1: swaps l[i] with the last element in
\* the shared backing array and returns the array with the slice one shorter.
deleteFromSlice(l, i) ==
  IF Len(l) = 0 \/ i > Len(l) \/ i < 1
    THEN [arr |-> l, len |-> Len(l)]
    ELSE [arr |-> [l EXCEPT ![i] = l[Len(l)], ![Len(l)] = l[i]],
          len |-> Len(l) - 1]

\* Mutant of UnregisterLoop: every occurrence of id is removed and the order
\* of the other entries is kept.
UnregisterLoopAll(entities, cur, id, i) == SelectSeq(cur, LAMBDA x : x # id)

\* The inner loop of UnregisterEntity from index i on. entities is the slice
\* the range statement captured (its length never changes, its backing array
\* is the one deleteFromSlice swaps in); cur is entitiesRegistry[sid].
RECURSIVE UnregisterLoop(_, _, _, _)
UnregisterLoop(entities, cur, id, i) ==
  IF i > Len(entities) THEN cur
  ELSE IF entities[i] = id
    THEN LET d == deleteFromSlice(entities, i) IN
         UnregisterLoop(d.arr, SubSeq(d.arr, 1, d.len), id, i + 1)
    ELSE UnregisterLoop(entities, cur, id, i + 1)

\* Mutant of UnregisterResult: the association lists left empty are removed
\* from the map.
UnregisterResultPrune(er, cr, id) ==
  LET kept == {sid \in DOMAIN er : UnregisterLoop(er[sid], er[sid], id, 1) # <<>>} IN
  [er |-> [sid \in kept |-> UnregisterLoop(er[sid], er[sid], id, 1)],
   cr |-> Delete(cr, id)]

\* The registry fields after UnregisterEntity(id) on the given fields.
UnregisterResult(er, cr, id) ==
  [er |-> [sid \in DOMAIN er |-> UnregisterLoop(er[sid], er[sid], id, 1)],
   cr |-> Delete(cr, id)]

UnregisterEntity(id) ==
  LET r == UnregisterResult(entitiesRegistry, componentsRegistry, id) IN
  /\ Running
  /\ entitiesRegistry' = r.er
  /\ componentsRegistry' = r.cr
  /\ ret' = [Ret0 EXCEPT !.op = "UnregisterEntity", !.ent = id,
                         !.before = [er |-> entitiesRegistry, cr |-> componentsRegistry]]
  /\ noUnregister' = FALSE
  /\ argHist' = [s \in SystemIDs |-> <<>>]
  /\ compHist' = [compHist EXCEPT ![id] = <<>>]
  /\ unregistered' = unregistered \cup {id}
  /\ retired' = retired \cup {id}
  /\ UNCHANGED <<updaters, drawers, heap, frames, heap0, ids>>

\* ------------------------------------------- RegisterUpdater, RegisterDrawer
\* Mutant of Associate: an entity the system is already associated with is not
\* added again.
AssociateOnce(er, s, e) ==
  Store(er, s, Lookup(er, s) \o SelectSeq(e, LAMBDA x : x \notin Range(Lookup(er, s))))

\* ecs.entitiesRegistry[s.ID()] = append(ecs.entitiesRegistry[s.ID()], e...)
Associate(er, s, e) == Store(er, s, Lookup(er, s) \o e)

\* Mutant of RegisterUpdater: a system that is already in the update list is
\* not added to it again.
RegisterUpdaterOnce(s, e) ==
  /\ Running
  /\ updaters' = IF s \in Range(updaters) THEN updaters ELSE Append(updaters, s)
  /\ entitiesRegistry' = Associate(entitiesRegistry, s, e)
  /\ ret' = [Ret0 EXCEPT !.op = "RegisterUpdater", !.sys = s, !.ents = e]
  /\ argHist' = IF noUnregister THEN [argHist EXCEPT ![s] = @ \o e] ELSE argHist
  /\ retired' = retired \ Range(e)
  /\ UNCHANGED <<drawers, componentsRegistry, heap, noUnregister, compHist, frames, heap0, ids, unregistered>>

RegisterUpdater(s, e) ==
  /\ Running
  /\ updaters' = Append(updaters, s)
  /\ entitiesRegistry' = Associate(entitiesRegistry, s, e)
  /\ ret' = [Ret0 EXCEPT !.op = "RegisterUpdater", !.sys = s, !.ents = e]
  /\ argHist' = IF noUnregister THEN [argHist EXCEPT ![s] = @ \o e] ELSE argHist
  /\ retired' = retired \ Range(e)
  /\ UNCHANGED <<drawers, componentsRegistry, heap, noUnregister, compHist, frames, heap0, ids, unregistered>>

\* Mutant of RegisterDrawer: the entities of a drawer are not added to the
\* association list the updaters read.
RegisterDrawerApart(s, zIndex, e) ==
  LET bucket == IF zIndex \in DOMAIN drawers THEN drawers
                ELSE Store(drawers, zIndex, <<>>) IN
  /\ Running
  /\ drawers' = Store(bucket, zIndex, Append(bucket[zIndex], s))
  /\ entitiesRegistry' = Associate(entitiesRegistry, s, <<>>)
  /\ ret' = [Ret0 EXCEPT !.op = "RegisterDrawer", !.sys = s, !.z = zIndex, !.ents = e]
  /\ argHist' = IF noUnregister THEN [argHist EXCEPT ![s] = @ \o e] ELSE argHist
  /\ retired' = retired \ Range(e)
  /\ UNCHANGED <<updaters, componentsRegistry, heap, noUnregister, compHist, frames, heap0, ids, unregistered>>

RegisterDrawer(s, zIndex, e) ==
  LET bucket == IF zIndex \in DOMAIN drawers THEN drawers
                ELSE Store(drawers, zIndex, <<>>) IN
  /\ Running
  /\ drawers' = Store(bucket, zIndex, Append(bucket[zIndex], s))
  /\ entitiesRegistry' = Associate(entitiesRegistry, s, e)
  /\ ret' = [Ret0 EXCEPT !.op = "RegisterDrawer", !.sys = s, !.z = zIndex, !.ents = e]
  /\ argHist' = IF noUnregister THEN [argHist EXCEPT ![s] = @ \o e] ELSE argHist
  /\ retired' = retired \ Range(e)
  /\ UNCHANGED <<updaters, componentsRegistry, heap, noUnregister, compHist, frames, heap0, ids, unregistered>>

\* ------------------------------------------- FilterEntities, QueryComponents
\* FilterEntities(s): the association list of s.ID(), nil when there is none.
FilterEntitiesOf(er, s) == Lookup(er, s)

\* An out slot handed to QueryComponents: kind "ptrptr" is a **T (the only valid
\* form), "ptr" a *T to a non-pointer, "value" a T; val is the *T it holds.
Slot(t, kind, val) == [type |-> t, kind |-> kind, val |-> val]

\* Mutant of QueryScan: the scan does not stop at the first match, so the last
\* component of the slot's type is the one bound.
RECURSIVE QueryScanLast(_, _, _)
QueryScanLast(c, slot, k) ==
  IF k > Len(c) THEN [slot |-> slot, fault |-> FALSE]
  ELSE IF ~c[k].ptr THEN [slot |-> slot, fault |-> TRUE]
  ELSE IF c[k].type = slot.type
    THEN QueryScanLast(c, [slot EXCEPT !.val = c[k].cell], k + 1)
    ELSE QueryScanLast(c, slot, k + 1)

\* The inner loop of QueryComponents for one slot, from the k-th component on:
\* the first component of the slot's type is bound and the scan stops; a
\* registered payload that is not a pointer panics.
RECURSIVE QueryScan(_, _, _)
QueryScan(c, slot, k) ==
  IF k > Len(c) THEN [slot |-> slot, fault |-> FALSE]
  ELSE IF ~c[k].ptr THEN [slot |-> slot, fault |-> TRUE]
  ELSE IF c[k].type = slot.type
    THEN [slot |-> [slot EXCEPT !.val = c[k].cell], fault |-> FALSE]
    ELSE QueryScan(c, slot, k + 1)

\* QueryComponents(c, components...) from the i-th slot on.
RECURSIVE QueryLoop(_, _, _)
QueryLoop(c, slots, i) ==
  IF i > Len(slots) THEN [slots |-> slots, fault |-> FALSE]
  ELSE IF slots[i].kind # "ptrptr" THEN [slots |-> slots, fault |-> TRUE]
  ELSE LET r == QueryScan(c, slots[i], 1) IN
       IF r.fault THEN [slots |-> [slots EXCEPT ![i] = r.slot], fault |-> TRUE]
       ELSE QueryLoop(c, [slots EXCEPT ![i] = r.slot], i + 1)

QueryComponents(c, slots) == QueryLoop(c, slots, 1)

\* --------------------------------------------------------------- the systems
\* What the n-th updater invocation of a frame returns: nil before o.first,
\* the error o.err at o.first, and o.later (nil or an error) after it.
ErrAt(o, n) ==
  IF n < o.first THEN NoError ELSE IF n = o.first THEN o.err ELSE o.later

\* Mutant of UpdaterUpdate: the counter bound is a copy of the payload, so the
\* decrement does not reach the registered record.
UpdaterUpdateCopy(c, h, rv) ==
  LET q == QueryComponents(c, <<Slot("Counter", "ptrptr", Unbound)>>)
      counter == q.slots[1].val IN
  IF q.fault \/ counter = Unbound
    THEN [heap |-> h, rv |-> "panic", fault |-> TRUE]
    ELSE [heap |-> h, rv |-> rv, fault |-> FALSE]

\* An Updater's Update, as CounterSystem.Update with the return value rv:
\* binds the entity's counter, decrements it (a nil counter panics), returns rv.
UpdaterUpdate(c, h, rv) ==
  LET q == QueryComponents(c, <<Slot("Counter", "ptrptr", Unbound)>>)
      counter == q.slots[1].val IN
  IF q.fault \/ counter = Unbound
    THEN [heap |-> h, rv |-> "panic", fault |-> TRUE]
    ELSE [heap |-> [h EXCEPT ![counter] = @ - 1], rv |-> rv, fault |-> FALSE]

\* A Drawer's Draw, as CounterSystem.Draw: binds the entity's counter and
\* reads its value (a nil counter panics).
DrawerDraw(c) ==
  LET q == QueryComponents(c, <<Slot("Counter", "ptrptr", Unbound)>>) IN
  q.fault \/ q.slots[1].val = Unbound

\* -------------------------------------------------------------------- Update
\* Mutant of UpdateEntities: an error does not end the call; the loops go on
\* and the error of the last invocation is what is returned.
RECURSIVE UpdateEntitiesNoHalt(_, _, _, _, _, _)
UpdateEntitiesNoHalt(u, s, ents, j, st, o) ==
  IF j > Len(ents) THEN st
  ELSE
    LET e == ents[j]
        registeredComponents == Lookup(componentsRegistry, e)
        r == UpdaterUpdate(registeredComponents, st.heap, ErrAt(o, Len(st.log) + 1))
        call == [u |-> u, j |-> j, sys |-> s, ent |-> e,
                 comps |-> registeredComponents, rv |-> r.rv]
        st2 == [heap |-> r.heap, log |-> Append(st.log, call),
                err |-> IF r.fault THEN NoError ELSE r.rv,
                fault |-> r.fault, halt |-> r.fault]
    IN IF st2.halt THEN st2 ELSE UpdateEntitiesNoHalt(u, s, ents, j + 1, st2, o)

\* The inner loop of Update for the u-th updater s, from its j-th entity on.
\* st carries the heap, the invocations made so far, and whether the call has
\* returned (halt) with which error or panic.
RECURSIVE UpdateEntities(_, _, _, _, _, _)
UpdateEntities(u, s, ents, j, st, o) ==
  IF j > Len(ents) THEN st
  ELSE
    LET e == ents[j]
        registeredComponents == Lookup(componentsRegistry, e)
        r == UpdaterUpdate(registeredComponents, st.heap, ErrAt(o, Len(st.log) + 1))
        call == [u |-> u, j |-> j, sys |-> s, ent |-> e,
                 comps |-> registeredComponents, rv |-> r.rv]
        st2 == [heap |-> r.heap, log |-> Append(st.log, call),
                err |-> IF r.fault THEN NoError ELSE r.rv,
                fault |-> r.fault, halt |-> r.fault \/ r.rv # NoError]
    IN IF st2.halt THEN st2 ELSE UpdateEntities(u, s, ents, j + 1, st2, o)

\* Mutant of UpdateLoop: the update list is walked from its last entry to its
\* first.
RECURSIVE UpdateLoopReversed(_, _, _)
UpdateLoopReversed(u, st, o) ==
  IF u > Len(updaters) \/ st.halt THEN st
  ELSE LET v == Len(updaters) + 1 - u IN
       UpdateLoopReversed(u + 1,
         UpdateEntities(v, updaters[v], FilterEntitiesOf(entitiesRegistry, updaters[v]),
                        1, st, o),
         o)

\* The outer loop of Update from the u-th updater on.
RECURSIVE UpdateLoop(_, _, _)
UpdateLoop(u, st, o) ==
  IF u > Len(updaters) \/ st.halt THEN st
  ELSE UpdateLoop(u + 1,
         UpdateEntities(u, updaters[u], FilterEntitiesOf(entitiesRegistry, updaters[u]),
                        1, st, o),
         o)

UpdateResult(o) ==
  UpdateLoop(1, [heap |-> heap, log |-> <<>>, err |-> NoError,
                 fault |-> FALSE, halt |-> FALSE], o)

Update(o) ==
  LET r == UpdateResult(o) IN
  /\ Running
  /\ heap' = r.heap
  /\ ret' = [Ret0 EXCEPT !.op = "Update", !.err = r.err, !.fault = r.fault,
                         !.log = r.log, !.before = heap]
  /\ frames' = frames + 1
  /\ UNCHANGED <<updaters, drawers, entitiesRegistry, componentsRegistry, hists, ids, gone>>

\* ---------------------------------------------------------------------- Draw
\* sort.Ints: insertion of x into an ascending sequence, and the sort.
RECURSIVE Insert(_, _)
Insert(x, sorted) ==
  IF sorted = <<>> THEN <<x>>
  ELSE IF x <= Head(sorted) THEN <<x>> \o sorted
  ELSE <<Head(sorted)>> \o Insert(x, Tail(sorted))

\* Mutant of SortInts: the z-indexes are left in the order the map yielded.
SortIntsNone(a) == a

RECURSIVE SortInts(_)
SortInts(a) == IF a = <<>> THEN <<>> ELSE Insert(Head(a), SortInts(Tail(a)))

\* The orders in which a range statement can visit the keys of a map.
RangeOrders(m) ==
  {q \in [1..Cardinality(DOMAIN m) -> DOMAIN m] : Range(q) = DOMAIN m}

\* Mutant of DrawEntities: the components are fetched once, for the first
\* entity of the list, and handed to every invocation.
RECURSIVE DrawEntitiesFirst(_, _, _, _, _, _)
DrawEntitiesFirst(z, k, d, ents, j, st) ==
  IF j > Len(ents) \/ st.fault THEN st
  ELSE
    LET e == ents[j]
        registeredComponents == Lookup(componentsRegistry, ents[1])
        call == [z |-> z, k |-> k, j |-> j, sys |-> d, ent |-> e,
                 comps |-> registeredComponents]
    IN DrawEntitiesFirst(z, k, d, ents, j + 1,
         [log |-> Append(st.log, call), fault |-> DrawerDraw(registeredComponents)])

\* The innermost loop of Draw: drawer d, k-th of bucket z, from entity j on.
RECURSIVE DrawEntities(_, _, _, _, _, _)
DrawEntities(z, k, d, ents, j, st) ==
  IF j > Len(ents) \/ st.fault THEN st
  ELSE
    LET e == ents[j]
        registeredComponents == Lookup(componentsRegistry, e)
        call == [z |-> z, k |-> k, j |-> j, sys |-> d, ent |-> e,
                 comps |-> registeredComponents]
    IN DrawEntities(z, k, d, ents, j + 1,
         [log |-> Append(st.log, call), fault |-> DrawerDraw(registeredComponents)])

\* The loop over the drawers of bucket z, from the k-th on.
RECURSIVE DrawBucket(_, _, _)
DrawBucket(z, k, st) ==
  IF k > Len(drawers[z]) \/ st.fault THEN st
  ELSE DrawBucket(z, k + 1,
         DrawEntities(z, k, drawers[z][k],
                      FilterEntitiesOf(entitiesRegistry, drawers[z][k]), 1, st))

\* The loop over the sorted z-indexes, from the i-th on.
RECURSIVE DrawLoop(_, _, _)
DrawLoop(zIndexes, i, st) ==
  IF i > Len(zIndexes) \/ st.fault THEN st
  ELSE DrawLoop(zIndexes, i + 1, DrawBucket(zIndexes[i], 1, st))

\* Draw, order being the order in which the map range yields the z-indexes.
DrawResult(order) ==
  DrawLoop(SortInts(order), 1, [log |-> <<>>, fault |-> FALSE])

Draw(order) ==
  LET r == DrawResult(order) IN
  /\ Running
  /\ ret' = [Ret0 EXCEPT !.op = "Draw", !.fault = r.fault, !.log = r.log,
                         !.order = order]
  /\ UNCHANGED <<updaters, drawers, entitiesRegistry, componentsRegistry, heap, hists, frames, ids, gone>>

\* ------------------------------------- QueryEntityComponents, FilterEntities
\* Mutant of MapIndex: indexing a key that is absent inserts it with the zero
\* value.
MapIndexInsert(m, k) == [m |-> Store(m, k, Lookup(m, k)), v |-> Lookup(m, k)]

\* The index expression m[k] of a Go map: the value read (the zero value when k
\* is absent) and the map, which a read leaves as it is.
MapIndex(m, k) == [m |-> m, v |-> Lookup(m, k)]

\* ECS.QueryEntityComponents(e, components...): looks up e's component list
\* and runs QueryComponents on it.
QueryEntityComponents(e, slots) ==
  LET registeredComponents == MapIndex(componentsRegistry, e)
      r == QueryComponents(registeredComponents.v, slots) IN
  /\ Running
  /\ componentsRegistry' = registeredComponents.m
  /\ ret' = [Ret0 EXCEPT !.op = "QueryEntityComponents", !.ent = e,
                         !.slots = slots, !.out = r.slots, !.fault = r.fault]
  /\ UNCHANGED <<updaters, drawers, entitiesRegistry, heap, hists, frames, ids, gone>>

\* ECS.FilterEntities(s) called by a client: returns the association list.
FilterEntities(s) ==
  LET entities == MapIndex(entitiesRegistry, s) IN
  /\ Running
  /\ entitiesRegistry' = entities.m
  /\ ret' = [Ret0 EXCEPT !.op = "FilterEntities", !.sys = s, !.ents = entities.v]
  /\ UNCHANGED <<updaters, drawers, componentsRegistry, heap, hists, frames, ids, gone>>

\* ------------------------------------------------------------------ AssignID
\* Mutant of AssignID: the value returned is the one before the increment.
AssignIDPostfix(id) == [id |-> id + 1, rv |-> id]

\* AssignID of either package on its counter id: id++; return id.
AssignID(id) == [id |-> id + 1, rv |-> id + 1]

\* entity.AssignID()
EntityAssignID ==
  LET r == AssignID(entityId) IN
  /\ Running
  /\ entityId' = r.id
  /\ ret' = [Ret0 EXCEPT !.op = "entity.AssignID", !.ent = r.rv]
  /\ issued' = [issued EXCEPT !.entity = @ \cup {r.rv}]
  /\ UNCHANGED <<Registry, heap, hists, frames, systemId, gone>>

\* system.AssignID()
SystemAssignID ==
  LET r == AssignID(systemId) IN
  /\ Running
  /\ systemId' = r.id
  /\ ret' = [Ret0 EXCEPT !.op = "system.AssignID", !.sys = r.rv]
  /\ issued' = [issued EXCEPT !.system = @ \cup {r.rv}]
  /\ UNCHANGED <<Registry, heap, hists, frames, entityId, gone>>

\* ------------------------------------------------------ the calls of clients
\* Number of drawers over all buckets.
RECURSIVE SumLen(_, _)
SumLen(m, keys) ==
  IF keys = {} THEN 0
  ELSE LET k == CHOOSE x \in keys : TRUE IN Len(m[k]) + SumLen(m, keys \ {k})

NumDrawers == SumLen(drawers, DOMAIN drawers)

\* The number of updater invocations of a frame in which none fails.
RECURSIVE Invocations(_)
Invocations(u) ==
  IF u > Len(updaters) THEN 0
  ELSE Len(FilterEntitiesOf(entitiesRegistry, updaters[u])) + Invocations(u + 1)

\* What updaters are made to return in one frame: the first failing invocation
\* (none when first is past the last one), its error, and what the invocations
\* after it would return: nil or the other error.
Oracles ==
  {o \in [first : 1..(Invocations(1) + 1), err : Errors, later : Errors \cup {NoError}] :
     o.later # o.err}

\* Caps on what a client registers.
CanAddSystem(n) == Len(updaters) + NumDrawers < n
CanAssociate(s, e) == Len(Lookup(entitiesRegistry, s)) + Len(e) <= MaxAssoc
CanAddComponents(e, c) == Len(Lookup(componentsRegistry, e)) + Len(c) <= MaxComps

\* The association side alone: systems are registered against entities and
\* entities are unregistered.
NextStruct ==
  \/ \E e \in EntityIDs : UnregisterEntity(e)
  \/ \E s \in SystemIDs, e \in SeqsUpTo(EntityIDs, MaxArgs) :
        CanAddSystem(MaxSystems) /\ CanAssociate(s, e) /\ RegisterUpdater(s, e)
  \/ \E s \in SystemIDs, z \in ZIndexes, e \in SeqsUpTo(EntityIDs, MaxArgs) :
        CanAddSystem(MaxSystems) /\ CanAssociate(s, e) /\ RegisterDrawer(s, z, e)

SpecStruct == Init /\ [][NextStruct]_vars

\* The host loop: the registry is set up, then frames run.
Setup == frames = 0 /\ ret.op # "Draw"

\* A client that registers entity e with one of the component lists given[e]
\* and at most n systems, then runs frames.
Host(given, n) ==
  \/ \E e \in EntityIDs : \E c \in given[e] :
        Setup /\ CanAddComponents(e, c) /\ RegisterEntity(e, c)
  \/ \E e \in EntityIDs : Setup /\ UnregisterEntity(e)
  \/ \E s \in SystemIDs, e \in SeqsUpTo(EntityIDs, MaxArgs) :
        Setup /\ CanAddSystem(n) /\ CanAssociate(s, e) /\ RegisterUpdater(s, e)
  \/ \E s \in SystemIDs, z \in ZIndexes, e \in SeqsUpTo(EntityIDs, MaxArgs) :
        Setup /\ CanAddSystem(n) /\ CanAssociate(s, e) /\ RegisterDrawer(s, z, e)
  \/ \E o \in Oracles : frames < MaxFrames /\ Update(o)
  \/ \E order \in RangeOrders(drawers) : Draw(order)

\* Every entity comes with its own counter, as in the example program.
OwnCounter == [e \in EntityIDs |-> {<<New("Counter", e, TRUE)>>}]

Next == Host(OwnCounter, FrameSystems)

Spec == Init /\ [][Next]_vars

\* The counter scenario: entities come with their own counter, one
\* RegisterUpdater call binds a system to one entity, and frames in which the
\* updater returns no error run once a system is registered.
InitCounter ==
  \E h \in [CounterCells -> 0..MaxCounterValue] : InitWith(h, Ret0)

NextCounter ==
  \/ \E e \in EntityIDs :
        e \notin DOMAIN componentsRegistry /\ RegisterEntity(e, <<New("Counter", e, TRUE)>>)
  \/ \E s \in SystemIDs, e \in EntityIDs : updaters = <<>> /\ RegisterUpdater(s, <<e>>)
  \/ \E o \in Oracles :
        updaters # <<>> /\ o.first > Invocations(1) /\ frames < MaxCounterFrames /\ Update(o)

SpecCounter == InitCounter /\ [][NextCounter]_vars

\* The query engine alone: QueryComponents is called on a component sequence
\* and out slots drawn from bounded sets.
CellsOf(t) == {c.cell : c \in {x \in Components : x.type = t /\ x.ptr}}

Slots ==
  {Slot(t, "ptrptr", v) : <<t, v>> \in {p \in Types \X ({Unbound} \cup Cells) :
                                         p[2] \in {Unbound} \cup CellsOf(p[1])}}
  \cup {Slot(t, k, Unbound) : t \in Types, k \in {"ptr", "value"}}

InitQuery ==
  \E c \in SeqsUpTo(Components, MaxAvailable), sl \in SeqsUpTo(Slots, MaxSlots) :
    InitWith([x \in CounterCells |-> InitValue],
             [Ret0 EXCEPT !.op = "Input", !.comps = c, !.slots = sl])

\* component.QueryComponents(c, components...) on the pending input.
QueryComponentsCall ==
  LET r == QueryComponents(ret.comps, ret.slots) IN
  /\ ret.op = "Input"
  /\ ret' = [ret EXCEPT !.op = "QueryComponents", !.out = r.slots, !.fault = r.fault]
  /\ UNCHANGED <<updaters, drawers, entitiesRegistry, componentsRegistry, heap, hists, frames, ids, gone>>

NextQuery == QueryComponentsCall

SpecQuery == InitQuery /\ [][NextQuery]_vars

\* Entities come with any components; a single system is registered.
AnyComponents == [e \in EntityIDs |-> SeqsUpTo(Components, MaxArgs)]

NextOwn == Host(AnyComponents, OwnSystems)

SpecOwn == Init /\ [][NextOwn]_vars

\* The component side alone: entities are registered with any components,
\* unregistered, and queried with any out slots.
NextEntity ==
  \/ \E e \in EntityIDs : \E c \in AnyComponents[e] :
        CanAddComponents(e, c) /\ RegisterEntity(e, c)
  \/ \E e \in EntityIDs : UnregisterEntity(e)
  \/ \E e \in EntityIDs, slots \in SeqsUpTo(Slots, MaxSlots) :
        QueryEntityComponents(e, slots)

SpecEntity == Init /\ [][NextEntity]_vars

\* The host loop with a client that also reads the registry between the calls.
NextRead ==
  \/ Host(OwnCounter, OwnSystems)
  \/ \E s \in SystemIDs : FilterEntities(s)
  \/ \E e \in EntityIDs, slots \in SeqsUpTo(Slots, ReadSlots) :
        QueryEntityComponents(e, slots)

SpecRead == Init /\ [][NextRead]_vars

\* The allocators alone: IDs are drawn from both packages in any order.
NextIDs ==
  \/ entityId < MaxIssued /\ EntityAssignID
  \/ systemId < MaxIssued /\ SystemAssignID

SpecIDs == Init /\ [][NextIDs]_vars

\* ------------------------------------------------------------------- C1
\* The invocations of the last Update() call that had entity e's counter to
\* decrement.
Decrements(e) ==
  Cardinality({i \in 1..Len(ret.log) : ret.log[i].ent = e /\ ret.log[i].rv # "panic"})

\* C1: Update() is fail-fast. When Update() returns, an invocation that returned
\* an error is the last invocation of the call and its error is what Update()
\* returns; when no invocation returned an error, Update() returns nil. No
\* invocation is made beyond those: each counter is below its value before the
\* call by the number of invocations for its entity.
C1_FailFast ==
  (ret.op = "Update" /\ ~ret.fault) =>
    /\ \A i \in 1..Len(ret.log) :
          ret.log[i].rv # NoError => i = Len(ret.log) /\ ret.err = ret.log[i].rv
    /\ (\A i \in 1..Len(ret.log) : ret.log[i].rv = NoError) => ret.err = NoError
    /\ \A e \in EntityIDs : heap[e] = ret.before[e] - Decrements(e)

\* An Update() that returned the error X after its first invocation, with
\* invocations of a later updater left to make.
C1_Witness ==
  /\ ret.op = "Update" /\ ~ret.fault /\ ret.err = "X"
  /\ Len(ret.log) = 1
  /\ Len(updaters) = 2
  /\ Invocations(1) >= 3

\* ------------------------------------------------------------------- C5
\* The invocations Update() makes before the j-th entity of the u-th updater
\* when it visits the update list in order, each association list in order.
UpdatesBefore(u, j) ==
  Cardinality(UNION {{<<a, b>> : b \in 1..Len(FilterEntitiesOf(entitiesRegistry, updaters[a]))} :
                       a \in 1..(u - 1)}) + (j - 1)

\* C5: Update() invokes the updaters in update-list order (the order of the
\* RegisterUpdater calls), each on its association list in list order, all
\* entities of one entry before the next entry: the i-th invocation is the one
\* for the j-th entity of the u-th entry with exactly i - 1 pairs before it,
\* and a RegisterUpdater call puts its system last in the update list.
C5_UpdateOrder ==
  /\ ret.op = "RegisterUpdater" => updaters[Len(updaters)] = ret.sys
  /\ ret.op = "Update" =>
    \A i \in 1..Len(ret.log) :
      LET c == ret.log[i] IN
      /\ c.u \in 1..Len(updaters)
      /\ c.sys = updaters[c.u]
      /\ c.j \in 1..Len(FilterEntitiesOf(entitiesRegistry, c.sys))
      /\ c.ent = FilterEntitiesOf(entitiesRegistry, c.sys)[c.j]
      /\ i = UpdatesBefore(c.u, c.j) + 1

\* A complete Update() over two different updaters, the first with entity 2
\* before entity 1 in its association list.
C5_Witness ==
  /\ ret.op = "Update" /\ ~ret.fault /\ ret.err = NoError
  /\ Len(updaters) = 2 /\ updaters[1] # updaters[2]
  /\ FilterEntitiesOf(entitiesRegistry, updaters[1]) = <<2, 1>>
  /\ Len(ret.log) = 3
  /\ ret.log[3].u = 2

\* ------------------------------------------------------------------- C4
\* The invocations Draw() makes before the j-th entity of the k-th drawer of
\* bucket z when it visits the buckets in ascending z-index.
DrawsBefore(z, k, j) ==
  Cardinality(UNION {UNION {{<<y, a, b>> :
                               b \in 1..Len(FilterEntitiesOf(entitiesRegistry, drawers[y][a]))} :
                            a \in 1..Len(drawers[y])} :
                     y \in {x \in DOMAIN drawers : x < z}})
  + Cardinality(UNION {{<<a, b>> :
                          b \in 1..Len(FilterEntitiesOf(entitiesRegistry, drawers[z][a]))} :
                       a \in 1..(k - 1)})
  + (j - 1)

\* C4: Draw() visits the buckets in ascending z-index whatever order the map
\* yields them in, the drawers of a bucket in registration order, each over its
\* association list in list order: the i-th invocation is the one for the j-th
\* entity of the k-th drawer of bucket z with exactly i - 1 triples before it,
\* and a RegisterDrawer call puts its system last in its bucket.
C4_DrawOrder ==
  /\ ret.op = "RegisterDrawer" => drawers[ret.z][Len(drawers[ret.z])] = ret.sys
  /\ ret.op = "Draw" =>
    \A i \in 1..Len(ret.log) :
      LET c == ret.log[i] IN
      /\ c.z \in DOMAIN drawers
      /\ c.k \in 1..Len(drawers[c.z])
      /\ c.sys = drawers[c.z][c.k]
      /\ c.j \in 1..Len(FilterEntitiesOf(entitiesRegistry, c.sys))
      /\ c.ent = FilterEntitiesOf(entitiesRegistry, c.sys)[c.j]
      /\ i = DrawsBefore(c.z, c.k, c.j) + 1

\* A Draw() for which the map yielded bucket 2 before bucket 1, both buckets
\* holding a drawer with entities.
C4_Witness ==
  /\ ret.op = "Draw" /\ ~ret.fault
  /\ ret.order = <<2, 1>>
  /\ Len(ret.log) >= 2
  /\ ret.log[1].z = 1
  /\ ret.log[Len(ret.log)].z = 2

\* A second witness of C4: two drawers registered in one bucket, the second
\* registered being another system than the first, both invoked.
C4_WitnessBucket ==
  /\ ret.op = "Draw" /\ ~ret.fault
  /\ \E i \in 1..Len(ret.log) : ret.log[i].k = 2 /\ ret.log[i].sys # ret.log[1].sys

\* ------------------------------------------------------------------- C2
\* Entity e occurs in no system's FilterEntities result, er being the
\* entities registry.
Absent(er, e) == \A s \in SystemIDs : e \notin Range(FilterEntitiesOf(er, s))

\* C2: after UnregisterEntity(e) returns, e occurs in no FilterEntities(s), and
\* an absent entity stays absent until a RegisterUpdater or RegisterDrawer call
\* is passed e again.
C2_AbsentAfterUnregister ==
  [][ /\ (ret'.op = "UnregisterEntity" => Absent(entitiesRegistry', ret'.ent))
      /\ \A e \in EntityIDs :
            (Absent(entitiesRegistry, e) /\ ~Absent(entitiesRegistry', e)) =>
              (ret'.op \in {"RegisterUpdater", "RegisterDrawer"} /\ e \in Range(ret'.ents)) ]_vars

\* ------------------------------------------------------------------- C3
\* C3: UnregisterEntity is idempotent: a second UnregisterEntity(id) right after
\* a first one changes no field of the registry and does not fault.
C3_UnregisterIdempotent ==
  [][ (ret.op = "UnregisterEntity" /\ ret'.op = "UnregisterEntity" /\ ret'.ent = ret.ent) =>
        (Registry' = Registry /\ ~ret'.fault) ]_vars

\* ------------------------------------------------------------------- C6
\* C6: as long as UnregisterEntity has not been called, FilterEntities(s) is the
\* concatenation, in call order and with duplicates kept, of the entity
\* arguments of the RegisterUpdater and RegisterDrawer calls made with a system
\* of ID s; it is the empty sequence when there was no such call.
C6_FilterIsArgumentHistory ==
  noUnregister =>
    \A s \in SystemIDs : FilterEntitiesOf(entitiesRegistry, s) = argHist[s]

\* A system registered as updater and as drawer, its association list holding
\* an entity twice, while another system has never been registered.
C6_Witness ==
  /\ noUnregister
  /\ \E s \in SystemIDs :
        /\ s \in Range(updaters)
        /\ \E z \in DOMAIN drawers : s \in Range(drawers[z])
        /\ FilterEntitiesOf(entitiesRegistry, s) = <<2, 1, 2>>
  /\ \E s \in SystemIDs :
        s \notin DOMAIN entitiesRegistry /\ FilterEntitiesOf(entitiesRegistry, s) = <<>>

\* ------------------------------------------------------------------- C7
\* C7: every invocation Update() or Draw() makes for an entity e is handed the
\* component sequence registered under e: the components passed to the
\* RegisterEntity calls for e since its last unregistration, in that order.
C7_OwnComponents ==
  ret.op \in {"Update", "Draw"} =>
    \A i \in 1..Len(ret.log) :
      /\ ret.log[i].comps = Lookup(componentsRegistry, ret.log[i].ent)
      /\ ret.log[i].comps = compHist[ret.log[i].ent]

\* A Draw() of one drawer bound to two entities, each invocation with the
\* components of its entity, one of them holding two components.
C7_Witness ==
  /\ ret.op = "Draw" /\ ~ret.fault
  /\ Len(ret.log) = 2
  /\ ret.log[1].sys = ret.log[2].sys
  /\ ret.log[1].ent # ret.log[2].ent
  /\ Len(ret.log[1].comps) = 2
  /\ Range(ret.log[1].comps) \cap Range(ret.log[2].comps) = {}
  /\ ret.log[2].comps # <<>>

\* ------------------------------------------------------------------- C8
\* The invocations of system s for entity e in the last Update() or Draw().
Calls(s, e) ==
  Cardinality({i \in 1..Len(ret.log) : ret.log[i].sys = s /\ ret.log[i].ent = e})

\* The systems in the draw buckets.
Drawers == UNION {Range(drawers[z]) : z \in DOMAIN drawers}

\* C8: in one frame a system is invoked once per associated entity: an Update()
\* that returns no error has invoked each updater exactly once for each entity
\* of its association list, and a Draw() has invoked each drawer exactly once
\* for each entity of its association list.
C8_OncePerEntity ==
  /\ (ret.op = "Update" /\ ~ret.fault /\ ret.err = NoError) =>
        \A s \in Range(updaters) :
          \A e \in Range(FilterEntitiesOf(entitiesRegistry, s)) : Calls(s, e) = 1
  /\ (ret.op = "Draw" /\ ~ret.fault) =>
        \A s \in Drawers :
          \A e \in Range(FilterEntitiesOf(entitiesRegistry, s)) : Calls(s, e) = 1

\* ------------------------------------------------------------------- C9
\* System s is the only updater, registered by one call bound to entity e
\* only, and e holds one counter.
CounterScenario(s, e) ==
  /\ updaters = <<s>>
  /\ entitiesRegistry = (s :> <<e>>)
  /\ Lookup(componentsRegistry, e) = <<New("Counter", e, TRUE)>>

\* C9: with entity e registered with one counter of initial value v and a
\* decrementing updater bound to e by a single RegisterUpdater call, the k
\* Update() calls made so far have each returned no error and the counter is
\* at v - k.
C9_CountDown ==
  \A s \in SystemIDs, e \in EntityIDs :
    CounterScenario(s, e) =>
      /\ ~ret.fault
      /\ ret.err = NoError
      /\ heap[e] = heap0[e] - frames

\* Three Update() calls on a counter created with Value 10 leave it at 7.
C9_Witness ==
  /\ CounterScenario(1, 1)
  /\ ret.op = "Update"
  /\ heap0[1] = 10
  /\ frames = 3
  /\ heap[1] = 7

\* ------------------------------------------------------------------ C10
\* The positions in c of the components of slot's type.
Matches(c, slot) == {k \in 1..Len(c) : c[k].type = slot.type}

Min(S) == CHOOSE x \in S : \A y \in S : x <= y

\* C10: a QueryComponents call that returns binds every slot, whatever the other
\* slots are, to the payload of the first component of the slot's type in
\* the sequence it was given, leaves a slot that no component matches as it
\* was before the call, and leaves the sequence as it was.
C10_FirstMatch ==
  [][ (ret'.op = "QueryComponents" /\ ~ret'.fault) =>
        /\ ret'.comps = ret.comps
        /\ Len(ret'.out) = Len(ret.slots)
        /\ \A i \in 1..Len(ret.slots) :
              IF Matches(ret.comps, ret.slots[i]) = {}
                THEN ret'.out[i] = ret.slots[i]
                ELSE ret'.out[i] =
                       [ret.slots[i] EXCEPT
                          !.val = ret.comps[Min(Matches(ret.comps, ret.slots[i]))].cell] ]_vars

\* A query over two counters and no record of the other type: the counter slot,
\* bound to the second counter before the call, holds the first one after it,
\* and the slot of the other type is still unbound.
C10_Witness ==
  /\ ret.op = "QueryComponents" /\ ~ret.fault
  /\ ret.comps = <<New("Counter", 2, TRUE), New("Counter", 1, TRUE)>>
  /\ ret.slots = <<Slot("Other", "ptrptr", Unbound), Slot("Counter", "ptrptr", 1)>>
  /\ ret.out = <<Slot("Other", "ptrptr", Unbound), Slot("Counter", "ptrptr", 2)>>

\* ------------------------------------------------------------------ C11
\* C11: from an UnregisterEntity(e) on, and as long as RegisterEntity has not
\* been called for e again, the components registry has no entry for e, and a
\* QueryEntityComponents(e, slots) call leaves every slot as it was handed in,
\* whatever components e had before and whatever the slots held.
C11_GoneAfterUnregister ==
  /\ \A e \in unregistered : e \notin DOMAIN componentsRegistry
  /\ (ret.op = "QueryEntityComponents" /\ ret.ent \in unregistered) => ret.out = ret.slots

\* A query for entity 1, unregistered and not registered since, with an unbound
\* counter slot and a slot of the other type bound before the call, while
\* entity 2 holds a counter and a record of the other type.
C11_Witness ==
  /\ ret.op = "QueryEntityComponents" /\ ~ret.fault
  /\ ret.ent = 1 /\ 1 \in unregistered
  /\ ret.slots = <<Slot("Counter", "ptrptr", Unbound), Slot("Other", "ptrptr", OtherCell)>>
  /\ ret.out = ret.slots
  /\ Lookup(componentsRegistry, 2) = <<New("Counter", 2, TRUE), New("Other", OtherCell, TRUE)>>

\* A second witness of C11: the UnregisterEntity call itself, on an entity
\* that held two components.
C11_WitnessUnregister ==
  /\ ret.op = "UnregisterEntity"
  /\ Len(Lookup(ret.before.cr, ret.ent)) = 2
  /\ ret.ent \notin DOMAIN componentsRegistry

\* ------------------------------------------------------------------ C12
\* C12: a RegisterEntity call handed a component whose payload is not a
\* pointer faults, wherever that component stands in the argument list, and no
\* component list of the registry ever holds a component whose payload is not
\* a pointer.
C12_PointerPayloads ==
  /\ (ret.op = "RegisterEntity" /\ \E i \in 1..Len(ret.comps) : ~ret.comps[i].ptr)
        => ret.fault
  /\ \A e \in DOMAIN componentsRegistry :
        \A i \in 1..Len(componentsRegistry[e]) : componentsRegistry[e][i].ptr

\* A RegisterEntity call handed a record by reference followed by a counter
\* by value, while another entity holds a counter: it has faulted.
C12_Witness ==
  /\ ret.op = "RegisterEntity" /\ ret.fault
  /\ ret.ent = 1
  /\ ret.comps = <<New("Other", OtherCell, TRUE), New("Counter", Unbound, FALSE)>>
  /\ Lookup(componentsRegistry, 2) = <<New("Counter", 2, TRUE)>>

\* ------------------------------------------------------------------ C13
\* The number of occurrences of x in the sequence l.
Count(l, x) == Cardinality({i \in 1..Len(l) : l[i] = x})

\* C13: UnregisterEntity(id) leaves the update list and the draw buckets as
\* they were, leaves the component list of every entity other than id as it
\* was, creates and removes no association list, and keeps in every
\* association list as many entries of each entity other than id as before.
C13_OnlyOwnEntries ==
  [][ ret'.op = "UnregisterEntity" =>
        /\ updaters' = updaters
        /\ drawers' = drawers
        /\ DOMAIN componentsRegistry' \ {ret'.ent} = DOMAIN componentsRegistry \ {ret'.ent}
        /\ \A e \in DOMAIN componentsRegistry \ {ret'.ent} :
              componentsRegistry'[e] = componentsRegistry[e]
        /\ DOMAIN entitiesRegistry' = DOMAIN entitiesRegistry
        /\ \A s \in DOMAIN entitiesRegistry : \A e \in EntityIDs \ {ret'.ent} :
              Count(entitiesRegistry'[s], e) = Count(entitiesRegistry[s], e) ]_vars

\* UnregisterEntity(1) with an updater and a drawer registered, on an
\* association list holding entity 1 twice before entity 2, which is moved,
\* and with a counter registered for entity 2.
C13_Witness ==
  /\ ret.op = "UnregisterEntity" /\ ret.ent = 1
  /\ updaters # <<>> /\ DOMAIN drawers # {}
  /\ 1 \in DOMAIN ret.before.cr
  /\ 2 \in DOMAIN componentsRegistry
  /\ \E s \in DOMAIN entitiesRegistry :
        ret.before.er[s] = <<1, 1, 2>> /\ entitiesRegistry[s] = <<2, 1>>

\* ------------------------------------------------------------------ C14
\* C14: an AssignID() call of a package returns a value that is not the zero
\* value and is greater than every value the package has returned before (so
\* none is returned twice), the first value returned being 1; and it leaves
\* the counter of the other package, hence the next value that package
\* returns, as it was.
C14_FreshIDs ==
  [][ /\ ret'.op = "entity.AssignID" =>
            /\ ret'.ent # 0
            /\ \A v \in issued.entity : ret'.ent > v
            /\ issued.entity = {} => ret'.ent = 1
            /\ AssignID(systemId').rv = AssignID(systemId).rv
      /\ ret'.op = "system.AssignID" =>
            /\ ret'.sys # 0
            /\ \A v \in issued.system : ret'.sys > v
            /\ issued.system = {} => ret'.sys = 1
            /\ AssignID(entityId').rv = AssignID(entityId).rv ]_vars

\* The third entity ID has been returned after two system IDs and two entity
\* IDs were.
C14_Witness ==
  /\ ret.op = "entity.AssignID" /\ ret.ent = 3
  /\ issued.entity = {1, 2, 3}
  /\ issued.system = {1, 2}

\* ------------------------------------------------------------------ C15
\* C15: Update(), Draw(), FilterEntities() and QueryEntityComponents() leave
\* the update list, the draw buckets, the association lists and the component
\* lists as they were, keys included: a read of an unknown system or entity
\* creates no entry. Only the payloads the components point at may change.
C15_ReadsKeepStructure ==
  [][ ret'.op \in {"Update", "Draw", "FilterEntities", "QueryEntityComponents"} =>
        /\ updaters' = updaters
        /\ drawers' = drawers
        /\ entitiesRegistry' = entitiesRegistry
        /\ DOMAIN entitiesRegistry' = DOMAIN entitiesRegistry
        /\ componentsRegistry' = componentsRegistry
        /\ DOMAIN componentsRegistry' = DOMAIN componentsRegistry ]_vars

\* FilterEntities on a system that was never registered, while another system
\* is registered with an entity that holds a counter: nil is returned and the
\* system has no entry.
C15_Witness ==
  /\ ret.op = "FilterEntities" /\ ret.ents = <<>>
  /\ ret.sys \notin DOMAIN entitiesRegistry
  /\ \E s \in DOMAIN entitiesRegistry : \E e \in Range(entitiesRegistry[s]) :
        e \in DOMAIN componentsRegistry

\* Further witnesses of C15: a query for an entity that has no entry, and an
\* Update() that has decremented the counter of a registered entity.
C15_WitnessQuery ==
  /\ ret.op = "QueryEntityComponents" /\ ~ret.fault
  /\ ret.ent \notin DOMAIN componentsRegistry
  /\ ret.slots # <<>>
  /\ DOMAIN componentsRegistry # {}

C15_WitnessUpdate ==
  /\ ret.op = "Update" /\ ~ret.fault
  /\ \E e \in DOMAIN componentsRegistry : heap[e] < heap0[e]

\* ------------------------------------------------------------------ C16
\* C16: UnregisterEntity(id) for an id that has no component list and occurs
\* in no association list does not fault and leaves the update list, the draw
\* buckets, the association lists and the component lists as they were.
C16_UnknownIsNoOp ==
  [][ ( /\ ret'.op = "UnregisterEntity"
        /\ ret'.ent \notin DOMAIN componentsRegistry
        /\ Absent(entitiesRegistry, ret'.ent) ) =>
        (Registry' = Registry /\ ~ret'.fault) ]_vars

\* UnregisterEntity(2) when entity 2 was in no list and had no components,
\* while entity 1 had a counter and was associated twice with a system and
\* another system had an empty association list.
C16_Witness ==
  /\ ret.op = "UnregisterEntity" /\ ret.ent = 2 /\ ~ret.fault
  /\ 2 \notin DOMAIN ret.before.cr
  /\ Absent(ret.before.er, 2)
  /\ 1 \in DOMAIN ret.before.cr
  /\ \E s \in DOMAIN ret.before.er : ret.before.er[s] = <<1, 1>>
  /\ \E s \in DOMAIN ret.before.er : ret.before.er[s] = <<>>
  /\ entitiesRegistry = ret.before.er
  /\ componentsRegistry = ret.before.cr

\* ------------------------------------------------------------------ C17
\* C17: every RegisterUpdater(s, ...) call appends one entry for s to the
\* update list, whether s is in it already or not, and an Update() in which no
\* invocation fails invokes s for entity e as many times as the number of
\* entries of s in the update list times the number of occurrences of e in
\* the association list of s.
C17_DuplicatesFire ==
  [][ /\ ret'.op = "RegisterUpdater" => updaters' = Append(updaters, ret'.sys)
      /\ (ret'.op = "Update" /\ ~ret'.fault /\ ret'.err = NoError) =>
            \A s \in SystemIDs : \A e \in EntityIDs :
              Calls(s, e)' =
                Count(updaters, s) * Count(FilterEntitiesOf(entitiesRegistry, s), e) ]_vars

\* An Update() without error after system 1 was registered twice as updater
\* and is associated twice with entity 1: four invocations.
C17_Witness ==
  /\ ret.op = "Update" /\ ~ret.fault /\ ret.err = NoError
  /\ updaters = <<1, 1>>
  /\ FilterEntitiesOf(entitiesRegistry, 1) = <<1, 1>>
  /\ Calls(1, 1) = 4

\* ------------------------------------------------------------------ C18
\* C18: an Update() or Draw() call makes no invocation for an entity that was
\* unregistered and has not been passed to RegisterEntity, RegisterUpdater or
\* RegisterDrawer since; in particular none with the empty component list
\* such an entity has.
C18_NoInvocationAfterUnregister ==
  ret.op \in {"Update", "Draw"} =>
    \A i \in 1..Len(ret.log) : ret.log[i].ent \notin retired

\* ------------------------------------------------------------------ C19
\* The position of the first occurrence of x in l.
FirstIndex(l, x) == Min({i \in 1..Len(l) : l[i] = x})

\* l with its i-th entry overwritten by its last and the last slot dropped.
SwapTruncate(l, i) == SubSeq([l EXCEPT ![i] = l[Len(l)]], 1, Len(l) - 1)

C20_SharedAssociation ==
  /\ (ret.op = "Update" /\ ~ret.fault /\ ret.err = NoError /\ noUnregister) =>
        \A s \in Range(updaters) : \A e \in Range(argHist[s]) : Calls(s, e) >= 1
  /\ (ret.op = "Draw" /\ ~ret.fault /\ noUnregister) =>
        \A s \in Drawers : \A e \in Range(argHist[s]) : Calls(s, e) >= 1

\* An Update() after system 1 was registered once as updater and once as
\* drawer, the two calls passing three entities in all (a call passes at most
\* MaxArgs = 2, so the RegisterDrawer call passed one at least): all three are
\* visited.
C20_Witness ==
  /\ ret.op = "Update" /\ ~ret.fault /\ ret.err = NoError /\ noUnregister
  /\ updaters = <<1>>
  /\ NumDrawers = 1 /\ Drawers = {1}
  /\ Len(argHist[1]) = 3 /\ Range(argHist[1]) = {1, 2}
  /\ Len(ret.log) = 3
  /\ \A i \in 1..3 : ret.log[i].sys = 1 /\ ret.log[i].ent = argHist[1][i]

\* A second witness of C20: the same registrations followed by a Draw().
C20_WitnessDraw ==
  /\ ret.op = "Draw" /\ ~ret.fault /\ noUnregister
  /\ updaters = <<1>>
  /\ NumDrawers = 1 /\ Drawers = {1}
  /\ Len(argHist[1]) = 3
  /\ Len(ret.log) = 3

\* ------------------------------------------------------------------ C21
\* C21: a RegisterEntity call that faults on a payload that is not a pointer
\* leaves the update list, the draw buckets, the association lists and the
\* component lists as they were: no component of the call has been added,
\* those that precede the offending one in the argument list included.
C21_FaultLeavesRegistry ==
  [][ (ret'.op = "RegisterEntity" /\ ret'.fault) => Registry' = Registry ]_vars

====
